---- MODULE Spec2Model ----
(***************************************************************************)
(* Model of the Cloudflare Worker of google-calendar-watcher               *)
(* (src/unnamed/part_000, lines 14-471): the snapshot/diff engine          *)
(* (normalizeItem, isFutureByEnd, shallowChanged, buildCurrentSnapshot,    *)
(* applyIncremental), ensureWatch and the handlers /subscribe, /hook and    *)
(* scheduled with their                                                    *)
(* reads and writes of the KV records channel, snapshot:<cal>, sync:<cal>. *)
(*                                                                         *)
(* Encoding of JavaScript values                                           *)
(*   - undefined / null string  : UNDEF ("undefined"); "" is the empty     *)
(*     string; both are falsy.                                             *)
(*   - an ISO time string       : a natural number c; the instant it       *)
(*     denotes is c \div NForms and c % NForms is its notation (the same   *)
(*     instant written with another UTC offset is another string).         *)
(*     UNDEF_T (-1) is undefined.  Date parsing is ParseTime.              *)
(*   - Record<string, NormEvent>: a function whose DOMAIN is the set of    *)
(*     keys present.                                                       *)
(*   - a missing object (null)  : Null.                                    *)
(***************************************************************************)
EXTENDS Integers, Sequences, FiniteSets, TLC

\* ------------------------------------------------------------ bounds
MaxTime == 2          \* the clock takes the instants 1..MaxTime
MaxPages == 2         \* list calls of one pagination loop
MaxPageItems == 1     \* items of one page of an incremental feed
SysPages == 1         \* list calls of one pagination loop when invocations run concurrently
MaxLines == 3         \* lines of a report body handed to postDiscord alone
MaxEntries == 2       \* items of each classified list handed to the report alone

\* ------------------------------------------------------------ values
UNDEF == "undefined"
UNDEF_T == 0 - 1
NForms == 2
Null == [null |-> TRUE]

Falsy(s) == s = UNDEF \/ s = ""
FalsyT(c) == c = UNDEF_T

\* new Date(s).getTime()
ParseTime(c) == c \div NForms
\* new Date(ms).toISOString(): always the "Z" notation
ToISO(t) == t * NForms

Ids == {"A", "B"}
Summaries == {"X", "Y"}
Placeholder == "(untitled)"
StartStrs == {ToISO(1), ToISO(1) + 1}
EndStrs == {ToISO(t) : t \in 2..(MaxTime + 1)}

\* ------------------------------------------------------------ map helpers
Remove(m, k) == [x \in (DOMAIN m) \ {k} |-> m[x]]
Put(m, k, v) == [x \in (DOMAIN m) \cup {k} |-> IF x = k THEN v ELSE m[x]]
EmptyMap == [x \in {} |-> Null]

\* ------------------------------------------------------------ pure functions
\* faulty variant, used to show the property below can fail: the date is preferred over the timestamp
normalizeItem_PrefersDate(ev) ==
  IF Falsy(ev.id) THEN Null
  ELSE LET summary == IF ev.summary = UNDEF THEN Placeholder ELSE ev.summary
           start == IF ev.start.date # UNDEF_T THEN ev.start.date ELSE ev.start.dateTime
           end == IF ev.end.date # UNDEF_T THEN ev.end.date ELSE ev.end.dateTime
       IN IF FalsyT(start) \/ FalsyT(end) THEN Null
          ELSE [id |-> ev.id, summary |-> summary, start |-> start, end |-> end]

\* normalizeItem: NormEvent | null
normalizeItem(ev) ==
  IF Falsy(ev.id) THEN Null
  ELSE LET summary == IF ev.summary = UNDEF THEN Placeholder ELSE ev.summary
           start == IF ev.start.dateTime # UNDEF_T THEN ev.start.dateTime ELSE ev.start.date
           end == IF ev.end.dateTime # UNDEF_T THEN ev.end.dateTime ELSE ev.end.date
       IN IF FalsyT(start) \/ FalsyT(end) THEN Null
          ELSE [id |-> ev.id, summary |-> summary, start |-> start, end |-> end]

\* faulty variant, used to show the property below can fail: an event ending exactly now still counts as future
isFutureByEnd_Inclusive(ev, nowIso) == ParseTime(ev.end) >= ParseTime(nowIso)

isFutureByEnd(ev, nowIso) == ParseTime(ev.end) > ParseTime(nowIso)

\* faulty variant, used to show the property below can fail: the start is not compared
shallowChanged_IgnoresStart(a, b) == a.summary # b.summary \/ a.end # b.end

shallowChanged(a, b) == a.summary # b.summary \/ a.start # b.start \/ a.end # b.end

\* faulty variant, used to show the property below can fail: a cancelled record is reported but its id stays in the snapshot
ApplyItem_KeepsCancelled(w, it, nowIso) ==
  IF it.status = "cancelled"
  THEN IF it.id \in DOMAIN w.events
       THEN LET existed == w.events[it.id] IN
            [w EXCEPT !.deleted = IF isFutureByEnd(existed, nowIso)
                                  THEN Append(@, existed) ELSE @]
       ELSE w
  ELSE LET n == normalizeItem(it) IN
       IF n = Null THEN w
       ELSE IF ~isFutureByEnd(n, nowIso)
            THEN [w EXCEPT !.events = Remove(@, n.id)]
            ELSE IF n.id \notin DOMAIN w.events
                 THEN [w EXCEPT !.events = Put(@, n.id, n)]
                 ELSE IF shallowChanged(w.events[n.id], n)
                      THEN [w EXCEPT !.updated = Append(@, [old |-> w.events[n.id], now |-> n]),
                                     !.events = Put(@, n.id, n)]
                      ELSE w

\* faulty variant, used to show the property below can fail: line 211 is not commented out, a new id is pushed to created
ApplyItem_PushesCreated(w, it, nowIso) ==
  IF it.status = "cancelled"
  THEN IF it.id \in DOMAIN w.events
       THEN LET existed == w.events[it.id] IN
            [w EXCEPT !.deleted = IF isFutureByEnd(existed, nowIso)
                                  THEN Append(@, existed) ELSE @,
                      !.events = Remove(@, it.id)]
       ELSE w
  ELSE LET n == normalizeItem(it) IN
       IF n = Null THEN w
       ELSE IF ~isFutureByEnd(n, nowIso)
            THEN [w EXCEPT !.events = Remove(@, n.id)]
            ELSE IF n.id \notin DOMAIN w.events
                 THEN [w EXCEPT !.events = Put(@, n.id, n), !.created = Append(@, n)]
                 ELSE IF shallowChanged(w.events[n.id], n)
                      THEN [w EXCEPT !.updated = Append(@, [old |-> w.events[n.id], now |-> n]),
                                     !.events = Put(@, n.id, n)]
                      ELSE w

\* One iteration of the item loop of applyIncremental over the working state
\* w = [events, created, updated, deleted].
ApplyItem(w, it, nowIso) ==
  IF it.status = "cancelled"
  THEN IF it.id \in DOMAIN w.events
       THEN LET existed == w.events[it.id] IN
            [w EXCEPT !.deleted = IF isFutureByEnd(existed, nowIso)
                                  THEN Append(@, existed) ELSE @,
                      !.events = Remove(@, it.id)]
       ELSE w
  ELSE LET n == normalizeItem(it) IN
       IF n = Null THEN w
       ELSE IF ~isFutureByEnd(n, nowIso)
            THEN [w EXCEPT !.events = Remove(@, n.id)]
            ELSE IF n.id \notin DOMAIN w.events
                 THEN [w EXCEPT !.events = Put(@, n.id, n)]
                 ELSE IF shallowChanged(w.events[n.id], n)
                      THEN [w EXCEPT !.updated = Append(@, [old |-> w.events[n.id], now |-> n]),
                                     !.events = Put(@, n.id, n)]
                      ELSE w

RECURSIVE ApplyItems(_, _, _)
ApplyItems(w, items, nowIso) ==
  IF items = <<>> THEN w
  ELSE ApplyItems(ApplyItem(w, Head(items), nowIso), Tail(items), nowIso)

\* ------------------------------------------------------------ time window
MinutesJst == 540            \* JST_OFFSET_MIN = 9 * 60
MinutesPerDay == 1440
WindowDays == 14
MarginMinutes == 5           \* 5 * 60 * 1000 ms

\* jstTodayStartISO: the instant of JST midnight of the day of nowUtc
jstTodayStart(nowT) == ((nowT + MinutesJst) \div MinutesPerDay) * MinutesPerDay - MinutesJst
\* plusDaysISO
plusDays(baseT, days) == baseT + days * MinutesPerDay

\* faulty variant, used to show the property below can fail: an event starting exactly at windowEnd is kept
RECURSIVE BuildMap_WindowInclusive(_, _, _, _)
BuildMap_WindowInclusive(map, events, nowIso, windowEndMs) ==
  IF events = <<>> THEN map
  ELSE LET n == normalizeItem(Head(events))
           m == IF n = Null THEN map
                ELSE IF ~isFutureByEnd(n, nowIso) THEN map
                ELSE IF ParseTime(n.start) > windowEndMs THEN map
                ELSE Put(map, n.id, n)
       IN BuildMap_WindowInclusive(m, Tail(events), nowIso, windowEndMs)

\* The map built by the loop of buildCurrentSnapshot over the accumulated events
RECURSIVE BuildMap(_, _, _, _)
BuildMap(map, events, nowIso, windowEndMs) ==
  IF events = <<>> THEN map
  ELSE LET n == normalizeItem(Head(events))
           m == IF n = Null THEN map
                ELSE IF ~isFutureByEnd(n, nowIso) THEN map
                ELSE IF ParseTime(n.start) >= windowEndMs THEN map
                ELSE Put(map, n.id, n)
       IN BuildMap(m, Tail(events), nowIso, windowEndMs)

\* ------------------------------------------------------------ inputs
RawTime(c) == [dateTime |-> c, date |-> UNDEF_T]
Cancelled(id) == [id |-> id, status |-> "cancelled", summary |-> UNDEF,
                  start |-> RawTime(UNDEF_T), end |-> RawTime(UNDEF_T)]
Confirmed(id, summary, start, end) ==
  [id |-> id, status |-> "confirmed", summary |-> summary,
   start |-> RawTime(start), end |-> RawTime(end)]

\* the events a snapshot of the pure specification may hold for an id
NormEvents(id) == [id : {id}, summary : Summaries, start : StartStrs, end : EndStrs]

\* raw records of an incremental feed: cancellations, every normalizable
\* record, and a record without an end (not normalizable)
FeedItems ==
  {Cancelled(id) : id \in Ids}
  \cup {Confirmed(e.id, e.summary, e.start, e.end) : e \in UNION {NormEvents(id) : id \in Ids}}
  \cup {Confirmed(id, "X", ToISO(1), UNDEF_T) : id \in Ids}

SeqsUpTo(S, n) == UNION {[1..k -> S] : k \in 0..n}

TokenOfPage(k) == CASE k = 1 -> "s1" [] k = 2 -> "s2" [] k = 3 -> "s3" [] OTHER -> "s4"

\* responses of events.list: one page
Responses(Items, pageNo, maxPages) ==
  [items : SeqsUpTo(Items, MaxPageItems),
   nextPageToken : IF pageNo < maxPages THEN {UNDEF, "p"} ELSE {UNDEF},
   nextSyncToken : {UNDEF, TokenOfPage(pageNo)}]

ListErrors == {"events.list failed: 410", "events.list failed: 500"}

\* ------------------------------------------------------------ state
VARIABLES
  clock,        \* the current instant (minutes)
  kvChannel,    \* KV record "channel": Null or [channelId, resourceId, expiration]
  kvSnapshot,   \* KV record "snapshot:<cal>": Null or [events, updatedAt]
  kvSync,       \* KV record "sync:<cal>": UNDEF (absent) or the token string
  writer,       \* history: the pass that wrote kvSnapshot and kvSync last
  chSeq,        \* number of channel ids generated so far (randomId is fresh)
  watches,      \* the provider: the channels registered by events.watch
  task          \* the invocations: their position and local variables

vars == <<clock, kvChannel, kvSnapshot, kvSync, writer, chSeq, watches, task>>

Hooks == {1, 2}
Subscribers == {3}
Tasks == Hooks \cup Subscribers

EmptyWork == [events |-> EmptyMap, created |-> <<>>, updated |-> <<>>, deleted |-> <<>>]

\* Local variables of an invocation.  The fields from pages on are history:
\* the feed seen, whether the snapshot and the token read were there
\* (baseline), the error that started the rebuild (cause), what the
\* invocation called and wrote, the result and the feed of an earlier
\* application by the same caller (first, feed1), the response it gave
\* (status, 0: none yet),
\* the requests it made to the Discord webhook (sent), the channel
\* ensureWatch returned (ensured) and, for a single push, the persisted
\* records when it arrived (before).  A local that is not read again is reset.
Idle(kind) ==
  [kind |-> kind, pc |-> "idle",
   state |-> UNDEF, channelId |-> 0, resourceId |-> UNDEF,
   channel |-> Null,
   prev |-> Null, syncToken |-> UNDEF, nowIso |-> UNDEF_T,
   w |-> EmptyWork, pageToken |-> UNDEF, nextSyncToken |-> UNDEF,
   events |-> <<>>, windowEndMs |-> 0, snap |-> Null, result |-> Null,
   err |-> UNDEF,
   pages |-> 0, feed |-> <<>>, baseline |-> "unread", cause |-> UNDEF, incFailed |-> FALSE,
   incTries |-> 0, incCalls |-> 0, rebuilds |-> 0, rebuildFailed |-> FALSE, wrote |-> {},
   status |-> 0, tokenCalls |-> 0, sent |-> <<>>, before |-> Null,
   decision |-> UNDEF, watchCalls |-> 0, chPuts |-> 0, ensured |-> Null,
   first |-> Null, feed1 |-> <<>>,
   body |-> <<>>, embeds |-> <<>>,
   entries |-> <<>>, message |-> Null, tokens |-> <<>>]

\* applyIncremental or buildCurrentSnapshot returns or throws into a handler:
\* the locals of the call are gone
Leave(r) ==
  [r EXCEPT !.syncToken = UNDEF, !.nowIso = UNDEF_T, !.w = EmptyWork,
            !.pageToken = UNDEF, !.events = <<>>, !.windowEndMs = 0,
            !.pages = 0, !.feed = <<>>, !.tokens = <<>>]

\* The invocation is over: its locals are gone, its history stays.
Finish(r) ==
  [Idle(r.kind) EXCEPT !.pc = "done", !.err = r.err, !.incFailed = r.incFailed,
                       !.baseline = r.baseline, !.cause = r.cause,
                       !.nextSyncToken = r.nextSyncToken,
                       !.incTries = r.incTries, !.incCalls = r.incCalls,
                       !.rebuilds = r.rebuilds, !.rebuildFailed = r.rebuildFailed,
                       !.wrote = r.wrote,
                       !.status = r.status, !.tokenCalls = r.tokenCalls,
                       !.sent = r.sent, !.before = r.before,
                       !.decision = r.decision, !.watchCalls = r.watchCalls,
                       !.chPuts = r.chPuts, !.ensured = r.ensured]

\* ------------------------------------------------------------ buildCurrentSnapshot
\* lines 128-138: the call of buildCurrentSnapshot up to its first await
StartRebuild(r) ==
  [r EXCEPT !.windowEndMs = plusDays(jstTodayStart(clock), WindowDays),
            !.events = <<>>, !.pageToken = UNDEF, !.nextSyncToken = UNDEF,
            !.pages = 0, !.rebuilds = @ + 1, !.pc = "rb_list"]

\* faulty variant, used to show the property below can fail: the inner catch tries the incremental step again
CatchAndRebuild_Retries(r, e) ==
  [Leave(r) EXCEPT !.err = e, !.cause = e, !.incFailed = TRUE, !.result = Null,
                   !.pc = "hk_prev"]

\* /hook lines 440-443: the inner catch starts the full rebuild
\* (prev, the working copy and the feed stay as they were at the throw until
\* the next step of the invocation)
CatchAndRebuild(r, e) ==
  StartRebuild([Leave(r) EXCEPT !.err = e, !.cause = e, !.incFailed = TRUE, !.result = Null,
                                !.w = r.w, !.feed = r.feed])

\* lines 141-156: one successful gcalList call; after the last page the map
\* (for a direct caller the accumulated events and the window end stay, as
\* history, next to the value returned)
RebuildPageOf(t, resp) ==
  /\ task[t].pc = "rb_list"
  /\ LET evs == task[t].events \o resp.items
         tok == IF resp.nextSyncToken # UNDEF THEN resp.nextSyncToken ELSE task[t].nextSyncToken
         nowIso == ToISO(clock)
     IN task' = [task EXCEPT
          ![t].prev = Null, ![t].w = EmptyWork, ![t].feed = <<>>,
          ![t].events = evs,
          ![t].pageToken = resp.nextPageToken,
          ![t].nextSyncToken = tok,
          ![t].pages = @ + 1,
          ![t] = IF ~Falsy(resp.nextPageToken) THEN @
                 ELSE IF task[t].kind \notin {"hook", "subscribe"}
                      THEN [@ EXCEPT
                         !.snap = [events |-> BuildMap(EmptyMap, evs, nowIso, task[t].windowEndMs),
                                   updatedAt |-> nowIso],
                         !.pc = "rb_returned"]
                 ELSE [Leave(@) EXCEPT
                         !.snap = [events |-> BuildMap(EmptyMap, evs, nowIso, task[t].windowEndMs),
                                   updatedAt |-> nowIso],
                         !.pc = "rb_putsnap"]]
  /\ UNCHANGED <<clock, kvChannel, kvSnapshot, kvSync, writer, chSeq, watches>>

\* line 141 throws: /hook lines 448-455 report it, /subscribe lines 388-390 answer 500
RebuildFailOf(t, e) ==
  /\ task[t].pc = "rb_list"
  /\ task' = [task EXCEPT ![t] =
       IF task[t].kind = "hook"
       THEN [Leave(@) EXCEPT !.err = e, !.rebuildFailed = TRUE, !.prev = Null, !.pc = "report"]
       ELSE Finish([@ EXCEPT !.err = e, !.rebuildFailed = TRUE])]
  /\ UNCHANGED <<clock, kvChannel, kvSnapshot, kvSync, writer, chSeq, watches>>

\* lines 384 and 444: put the rebuilt snapshot
RebuildPutSnapshot(t) ==
  /\ task[t].pc = "rb_putsnap"
  /\ kvSnapshot' = task[t].snap
  /\ writer' = [writer EXCEPT !.snapshot = <<t, "rebuild">>]
  /\ task' = [task EXCEPT ![t] =
       IF Falsy(task[t].nextSyncToken)
       THEN Finish([@ EXCEPT !.wrote = @ \cup {"rebuild.snapshot"}])
       ELSE [@ EXCEPT !.wrote = @ \cup {"rebuild.snapshot"}, !.pc = "rb_putsync"]]
  /\ UNCHANGED <<clock, kvChannel, kvSync, chSeq, watches>>

\* lines 385 and 445: put the token of the rebuild
RebuildPutSync(t) ==
  /\ task[t].pc = "rb_putsync"
  /\ kvSync' = task[t].nextSyncToken
  /\ writer' = [writer EXCEPT !.sync = <<t, "rebuild">>]
  /\ task' = [task EXCEPT ![t] = Finish([@ EXCEPT !.wrote = @ \cup {"rebuild.sync"}])]
  /\ UNCHANGED <<clock, kvChannel, kvSnapshot, chSeq, watches>>

\* ------------------------------------------------------------ applyIncremental
\* faulty variant, used to show the property below can fail: line 171 is missing, the list call is made with an empty token
IncStart_NoTokenCheck(t) ==
  /\ task[t].pc = "inc_token"
  /\ LET syncToken == IF kvSync = UNDEF THEN "" ELSE kvSync IN
     task' = [task EXCEPT ![t].syncToken = syncToken,
                          ![t].baseline = IF Falsy(syncToken) THEN "noToken" ELSE "read",
                          ![t].nowIso = ToISO(clock),
                          ![t].w = [EmptyWork EXCEPT !.events = task[t].prev.events],
                          ![t].pageToken = UNDEF,
                          ![t].nextSyncToken = UNDEF,
                          ![t].pages = 0,
                          ![t].pc = "inc_list"]
  /\ UNCHANGED <<clock, kvChannel, kvSnapshot, kvSync, writer, chSeq, watches>>

\* lines 165-179: read the token, check it, take nowIso, copy prev.events
IncStart(t) ==
  /\ task[t].pc = "inc_token"
  /\ LET syncToken == IF kvSync = UNDEF THEN "" ELSE kvSync IN
     IF Falsy(syncToken)
     THEN task' = [task EXCEPT ![t] =
            IF task[t].kind = "hook"
            THEN CatchAndRebuild([@ EXCEPT !.baseline = "noToken"], "no syncToken")
            ELSE [@ EXCEPT !.baseline = "noToken", !.err = "no syncToken",
                           !.incFailed = TRUE, !.pc = "inc_threw"]]
     ELSE task' = [task EXCEPT ![t].syncToken = syncToken,
                               ![t].baseline = "read",
                               ![t].nowIso = ToISO(clock),
                               ![t].w = [EmptyWork EXCEPT !.events = task[t].prev.events],
                               ![t].pageToken = UNDEF,
                               ![t].nextSyncToken = UNDEF,
                               ![t].pages = 0,
                               ![t].pc = "inc_list"]
  /\ UNCHANGED <<clock, kvChannel, kvSnapshot, kvSync, writer, chSeq, watches>>

\* faulty variant, used to show the property below can fail: the entries are moved out of prev.events, not copied
PrevAfterLoop_Moved(prev, w2) == [prev EXCEPT !.events = EmptyMap]

\* faulty variant, used to show the property below can fail: nextEvents is prev.events itself, not a copy
PrevAfterLoop_Aliased(prev, w2) == [prev EXCEPT !.events = w2.events]

\* line 174: nextEvents is a copy, so the writes of the loop leave prev alone
PrevAfterLoop(prev, w2) == prev

\* faulty variant, used to show the property below can fail: the deleted rows are pushed before the updated rows
buildChangeEntries_DeletedFirst(created, updated, deleted) ==
  [i \in 1..Len(created) |-> [kind |-> "created", current |-> created[i], previous |-> Null]]
  \o [i \in 1..Len(deleted) |-> [kind |-> "deleted", current |-> deleted[i], previous |-> Null]]
  \o [i \in 1..Len(updated) |->
        [kind |-> "updated", current |-> updated[i].now, previous |-> updated[i].old]]

\* lines 236-264: the rows of the report: created, then updated, then deleted
buildChangeEntries(created, updated, deleted) ==
  [i \in 1..Len(created) |-> [kind |-> "created", current |-> created[i], previous |-> Null]]
  \o [i \in 1..Len(updated) |->
        [kind |-> "updated", current |-> updated[i].now, previous |-> updated[i].old]]
  \o [i \in 1..Len(deleted) |-> [kind |-> "deleted", current |-> deleted[i], previous |-> Null]]

\* lines 266-287: the minute in JST, and the minute of the JST day
formatDatetime(iso) == ParseTime(iso) + MinutesJst
formatTime(iso) == (ParseTime(iso) + MinutesJst) % MinutesPerDay

\* lines 289-300: the lines of one row (the text has "\n" between them)
formatLine(entry) ==
  IF entry.kind = "updated" /\ entry.previous # Null
  THEN << <<"-", entry.current.summary, entry.kind>>,
          <<"before", formatDatetime(entry.previous.start), formatTime(entry.previous.end)>>,
          <<"after", formatDatetime(entry.current.start), formatTime(entry.current.end)>> >>
  ELSE << <<"-", entry.current.summary, entry.kind>>,
          <<"at", formatDatetime(entry.current.start), formatTime(entry.current.end)>> >>

\* lines 302-305: the lines of all rows, joined by "\n"; "" without rows
RECURSIVE formatChangeEntries(_)
formatChangeEntries(entries) ==
  IF entries = <<>> THEN <<>>
  ELSE formatLine(Head(entries)) \o formatChangeEntries(Tail(entries))

\* lines 307-327: the title follows the kind of the first row
renderDiscordMessage(entries) ==
  IF Len(entries) = 0 THEN [title |-> "Error: No entries to report", body |-> <<>>]
  ELSE [title |-> CASE entries[1].kind = "created" -> "added"
                    [] entries[1].kind = "updated" -> "updated"
                    [] entries[1].kind = "deleted" -> "deleted",
        body |-> formatChangeEntries(entries)]

\* lines 427-428: the message /hook hands to postDiscord
MessageOf(res) == renderDiscordMessage(buildChangeEntries(res.created, res.updated, res.deleted))

\* faulty variant, used to show the property below can fail: line 335 is missing, an empty body is posted too
NothingToPost_Never(res) == FALSE

\* line 335: postDiscord returns without a request when body.trim() is empty
\* (every line of a report starts with "- ", so only the body without lines)
NothingToPost(res) == MessageOf(res).body = <<>>

\* faulty variant, used to show the property below can fail: line 221 assigns resp.nextSyncToken without the fallback
IncPageOf_TokenOfLastPage(t, resp) ==
  /\ task[t].pc = "inc_list"
  /\ LET w2 == ApplyItems(task[t].w, resp.items, task[t].nowIso)
         tok == resp.nextSyncToken
         res == [next |-> [events |-> w2.events, updatedAt |-> task[t].nowIso],
                 created |-> w2.created, updated |-> w2.updated,
                 deleted |-> w2.deleted, nextSyncToken |-> tok]
         last == Falsy(resp.nextPageToken)
     IN task' = [task EXCEPT
          ![t].w = w2,
          ![t].prev = PrevAfterLoop(@, w2),
          ![t].pageToken = resp.nextPageToken,
          ![t].nextSyncToken = tok,
          ![t].tokens = Append(@, resp.nextSyncToken),
          ![t].pages = @ + 1,
          ![t].incCalls = @ + 1,
          ![t].feed = @ \o resp.items,
          ![t] = IF ~last THEN @
                 ELSE IF task[t].kind # "hook"
                      THEN [@ EXCEPT !.result = res, !.pc = "inc_returned"]
                 ELSE [Leave(@) EXCEPT !.result = res, !.feed = task[t].feed \o resp.items,
                         !.pc = IF NothingToPost(res) THEN "inc_putsnap" ELSE "inc_post"]]
  /\ UNCHANGED <<clock, kvChannel, kvSnapshot, kvSync, writer, chSeq, watches>>

\* lines 183-222, 231-232: one successful gcalList call and the loop over its
\* items; after the last page applyIncremental returns (prev and the feed
\* stay, as history, until the notification is out; tokens is the history of
\* the nextSyncToken field of the pages of the call)
IncPageOf(t, resp) ==
  /\ task[t].pc = "inc_list"
  /\ LET w2 == ApplyItems(task[t].w, resp.items, task[t].nowIso)
         tok == IF resp.nextSyncToken # UNDEF THEN resp.nextSyncToken ELSE task[t].nextSyncToken
         res == [next |-> [events |-> w2.events, updatedAt |-> task[t].nowIso],
                 created |-> w2.created, updated |-> w2.updated,
                 deleted |-> w2.deleted, nextSyncToken |-> tok]
         last == Falsy(resp.nextPageToken)
     IN task' = [task EXCEPT
          ![t].w = w2,
          ![t].prev = PrevAfterLoop(@, w2),
          ![t].pageToken = resp.nextPageToken,
          ![t].nextSyncToken = tok,
          ![t].tokens = Append(@, resp.nextSyncToken),
          ![t].pages = @ + 1,
          ![t].incCalls = @ + 1,
          ![t].feed = @ \o resp.items,
          ![t] = IF ~last THEN @
                 ELSE IF task[t].kind # "hook"
                      THEN [@ EXCEPT !.result = res, !.pc = "inc_returned"]
                 ELSE [Leave(@) EXCEPT !.result = res, !.feed = task[t].feed \o resp.items,
                         !.pc = IF NothingToPost(res) THEN "inc_putsnap" ELSE "inc_post"]]
  /\ UNCHANGED <<clock, kvChannel, kvSnapshot, kvSync, writer, chSeq, watches>>

\* lines 183, 223-229: gcalList throws; the catch maps 410/syncToken to syncGone
IncFailOf(t, e) ==
  /\ task[t].pc = "inc_list"
  /\ LET thrown == IF e = "events.list failed: 410" THEN "syncGone" ELSE e IN
     task' = [task EXCEPT ![t] =
       IF task[t].kind = "hook"
       THEN CatchAndRebuild([@ EXCEPT !.incCalls = @ + 1], thrown)
       ELSE [@ EXCEPT !.incCalls = @ + 1, !.err = thrown, !.incFailed = TRUE,
                      !.pc = "inc_threw"]]
  /\ UNCHANGED <<clock, kvChannel, kvSnapshot, kvSync, writer, chSeq, watches>>

\* ------------------------------------------------------------ /hook
HookHeaders == [state : {"sync", "exists"}, channelId : {1, 2}, resourceId : {"r1", "r2"}]

\* faulty variant, used to show the property below can fail: the response is not given before the work is over
HookStart_AwaitsWork(t) ==
  /\ task[t].kind = "hook" /\ task[t].pc = "idle"
  /\ \E h \in HookHeaders :
       task' = [task EXCEPT ![t].state = h.state, ![t].channelId = h.channelId,
                            ![t].resourceId = h.resourceId, ![t].pc = "hk_channel"]
  /\ UNCHANGED <<clock, kvChannel, kvSnapshot, kvSync, writer, chSeq, watches>>

\* lines 395-404, 459: the request arrives; the background task is handed to
\* ctx.waitUntil (it runs up to its first await, the read of the channel
\* record) and the handler returns the 200 response
HookStart(t) ==
  /\ task[t].kind = "hook" /\ task[t].pc = "idle"
  /\ \E h \in HookHeaders :
       task' = [task EXCEPT ![t].state = h.state, ![t].channelId = h.channelId,
                            ![t].resourceId = h.resourceId, ![t].status = 200,
                            ![t].pc = "hk_channel"]
  /\ UNCHANGED <<clock, kvChannel, kvSnapshot, kvSync, writer, chSeq, watches>>

\* faulty variant, used to show the property below can fail: the state header is not looked at
HookValidate_IgnoresState(t) ==
  /\ task[t].pc = "hk_channel"
  /\ task' = [task EXCEPT ![t] =
       IF kvChannel = Null THEN Finish(@)
       ELSE IF kvChannel.channelId # @.channelId \/ kvChannel.resourceId # @.resourceId
            THEN Finish(@)
       ELSE [@ EXCEPT !.channel = kvChannel, !.pc = "hk_token"]]
  /\ UNCHANGED <<clock, kvChannel, kvSnapshot, kvSync, writer, chSeq, watches>>

\* lines 406-418: read the channel record and validate the push
HookValidate(t) ==
  /\ task[t].pc = "hk_channel"
  /\ task' = [task EXCEPT ![t] =
       IF kvChannel = Null THEN Finish(@)
       ELSE IF kvChannel.channelId # @.channelId \/ kvChannel.resourceId # @.resourceId
            THEN Finish(@)
       ELSE IF @.state = "sync" THEN Finish(@)
       ELSE [@ EXCEPT !.channel = kvChannel, !.pc = "hk_token"]]
  /\ UNCHANGED <<clock, kvChannel, kvSnapshot, kvSync, writer, chSeq, watches>>

\* line 420: getAccessToken; a failure goes to the outer catch
HookAccessToken(t) ==
  /\ task[t].pc = "hk_token"
  /\ \E ok \in BOOLEAN :
       task' = [task EXCEPT ![t] =
         IF ok THEN [@ EXCEPT !.tokenCalls = @ + 1, !.pc = "hk_prev"]
         ELSE [@ EXCEPT !.tokenCalls = @ + 1, !.err = "token refresh failed", !.pc = "report"]]
  /\ UNCHANGED <<clock, kvChannel, kvSnapshot, kvSync, writer, chSeq, watches>>

\* lines 421-426: read the snapshot; without one throw noPrev, else call
\* applyIncremental
HookReadPrev(t) ==
  /\ task[t].pc = "hk_prev"
  /\ task' = [task EXCEPT ![t] =
       IF kvSnapshot = Null
       THEN CatchAndRebuild([@ EXCEPT !.prev = Null, !.baseline = "noPrev"], "noPrev")
       ELSE [@ EXCEPT !.prev = kvSnapshot, !.incTries = @ + 1, !.pc = "inc_token"]]
  /\ UNCHANGED <<clock, kvChannel, kvSnapshot, kvSync, writer, chSeq, watches>>

\* lines 339-348, 429: the webhook request of postDiscord
HookPost(t) ==
  /\ task[t].pc = "inc_post"
  /\ \E ok \in BOOLEAN :
       task' = [task EXCEPT ![t] =
         LET msg == [kind |-> "notify", title |-> MessageOf(task[t].result).title, ok |-> ok] IN
         IF ok THEN [@ EXCEPT !.sent = Append(@, msg), !.prev = Null, !.feed = <<>>,
                              !.pc = "inc_putsnap"]
         ELSE CatchAndRebuild([@ EXCEPT !.sent = Append(@, msg)], "discord webhook failed")]
  /\ UNCHANGED <<clock, kvChannel, kvSnapshot, kvSync, writer, chSeq, watches>>

\* line 430: put the next snapshot
HookPutSnapshot(t) ==
  /\ task[t].pc = "inc_putsnap"
  /\ kvSnapshot' = task[t].result.next
  /\ writer' = [writer EXCEPT !.snapshot = <<t, "inc">>]
  /\ task' = [task EXCEPT ![t] =
       IF Falsy(task[t].result.nextSyncToken)
       THEN Finish([@ EXCEPT !.wrote = @ \cup {"inc.snapshot"}])
       ELSE [@ EXCEPT !.wrote = @ \cup {"inc.snapshot"}, !.pc = "inc_putsync"]]
  /\ UNCHANGED <<clock, kvChannel, kvSync, chSeq, watches>>

\* faulty variant, used to show the property below can fail: the token of the incremental pass is not written
HookPutSync_Skips(t) ==
  /\ task[t].pc = "inc_putsync"
  /\ task' = [task EXCEPT ![t] = Finish(@)]
  /\ UNCHANGED <<clock, kvChannel, kvSnapshot, kvSync, writer, chSeq, watches>>

\* line 431: put the token of the incremental pass
HookPutSync(t) ==
  /\ task[t].pc = "inc_putsync"
  /\ kvSync' = task[t].result.nextSyncToken
  /\ writer' = [writer EXCEPT !.sync = <<t, "inc">>]
  /\ task' = [task EXCEPT ![t] = Finish([@ EXCEPT !.wrote = @ \cup {"inc.sync"}])]
  /\ UNCHANGED <<clock, kvChannel, kvSnapshot, chSeq, watches>>

\* faulty variant, used to show the property below can fail: the failure of the error report is not caught
HookReport_Throws(t) ==
  /\ task[t].pc = "report"
  /\ \E ok \in BOOLEAN :
       task' = [task EXCEPT ![t] =
         IF ok THEN Finish([@ EXCEPT !.sent = Append(@, [kind |-> "error", title |-> task[t].err,
                                                         ok |-> ok])])
         ELSE [@ EXCEPT !.sent = Append(@, [kind |-> "error", title |-> task[t].err, ok |-> ok]),
                        !.pc = "unhandled"]]
  /\ UNCHANGED <<clock, kvChannel, kvSnapshot, kvSync, writer, chSeq, watches>>

\* lines 448-456: the outer catch sends the error report; its own failure is
\* swallowed
HookReport(t) ==
  /\ task[t].pc = "report"
  /\ \E ok \in BOOLEAN :
       task' = [task EXCEPT ![t] =
         Finish([@ EXCEPT !.sent = Append(@, [kind |-> "error", title |-> task[t].err,
                                              ok |-> ok])])]
  /\ UNCHANGED <<clock, kvChannel, kvSnapshot, kvSync, writer, chSeq, watches>>

\* ------------------------------------------------------------ ensureWatch, /subscribe, scheduled
\* lines 378-381: /subscribe starts with getAccessToken
SubscribeStart(t) ==
  /\ task[t].kind = "subscribe" /\ task[t].pc = "idle"
  /\ \E ok \in BOOLEAN :
       task' = [task EXCEPT ![t] =
         IF ok THEN [@ EXCEPT !.tokenCalls = @ + 1, !.pc = "ew_read"]
         ELSE Finish([@ EXCEPT !.tokenCalls = @ + 1, !.err = "token refresh failed"])]
  /\ UNCHANGED <<clock, kvChannel, kvSnapshot, kvSync, writer, chSeq, watches>>

\* lines 465-468: scheduled starts with getAccessToken; a throw ends it
ScheduledStart(t) ==
  /\ task[t].kind = "scheduled" /\ task[t].pc = "idle"
  /\ \E ok \in BOOLEAN :
       task' = [task EXCEPT ![t] =
         IF ok THEN [@ EXCEPT !.tokenCalls = @ + 1, !.pc = "ew_read"]
         ELSE Finish([@ EXCEPT !.tokenCalls = @ + 1, !.err = "token refresh failed"])]
  /\ UNCHANGED <<clock, kvChannel, kvSnapshot, kvSync, writer, chSeq, watches>>

\* faulty variant, used to show the property below can fail: scheduled goes on with a full rebuild as /subscribe does
AfterEnsure_AlwaysRebuilds(r) == StartRebuild(r)

\* ensureWatch returned: /subscribe goes on with buildCurrentSnapshot (line
\* 383), scheduled is over (line 469)
AfterEnsure(r) == IF r.kind = "subscribe" THEN StartRebuild(r) ELSE Finish(r)

\* faulty variant, used to show the property below can fail: a channel is reused until it has expired
WatchRead_NoMargin(t) ==
  /\ task[t].pc = "ew_read"
  /\ IF kvChannel # Null /\ kvChannel.expiration # 0
        /\ kvChannel.expiration - clock > 0
     THEN /\ task' = [task EXCEPT ![t] =
                AfterEnsure([@ EXCEPT !.channel = kvChannel, !.ensured = kvChannel,
                                      !.decision = "reuse"])]
          /\ chSeq' = chSeq
     ELSE /\ task' = [task EXCEPT ![t].channelId = chSeq + 1, ![t].decision = "renew",
                                  ![t].pc = "ew_watch"]
          /\ chSeq' = chSeq + 1
  /\ UNCHANGED <<clock, kvChannel, kvSnapshot, kvSync, writer, watches>>

\* lines 357-364: read the channel; reuse it, or generate an id and call watch
WatchRead(t) ==
  /\ task[t].pc = "ew_read"
  /\ IF kvChannel # Null /\ kvChannel.expiration # 0
        /\ kvChannel.expiration - clock > MarginMinutes
     THEN /\ task' = [task EXCEPT ![t] =
                AfterEnsure([@ EXCEPT !.channel = kvChannel, !.ensured = kvChannel,
                                      !.decision = "reuse"])]
          /\ chSeq' = chSeq
     ELSE /\ task' = [task EXCEPT ![t].channelId = chSeq + 1, ![t].decision = "renew",
                                  ![t].pc = "ew_watch"]
          /\ chSeq' = chSeq + 1
  /\ UNCHANGED <<clock, kvChannel, kvSnapshot, kvSync, writer, watches>>

\* lines 365-366: gcalWatch registers the channel with the provider and answers
\* with the id, a resource id and maybe an expiration (0: none), or fails
WatchCall(t) ==
  /\ task[t].pc = "ew_watch"
  /\ \/ \E exp \in {0, clock + MarginMinutes, clock + MarginMinutes + MaxTime} :
          LET ch == [channelId |-> task[t].channelId, resourceId |-> "r1", expiration |-> exp] IN
          /\ task' = [task EXCEPT ![t].channel = ch, ![t].watchCalls = @ + 1,
                                  ![t].pc = "ew_put"]
          /\ watches' = watches \cup {ch}
     \/ /\ task' = [task EXCEPT ![t] =
               Finish([@ EXCEPT !.watchCalls = @ + 1, !.err = "events.watch failed"])]
        /\ watches' = watches
  /\ UNCHANGED <<clock, kvChannel, kvSnapshot, kvSync, writer, chSeq>>

\* lines 367-369: put the channel and return it
WatchPut(t) ==
  /\ task[t].pc = "ew_put"
  /\ kvChannel' = task[t].channel
  /\ task' = [task EXCEPT ![t] =
       AfterEnsure([@ EXCEPT !.chPuts = @ + 1, !.ensured = task[t].channel])]
  /\ UNCHANGED <<clock, kvSnapshot, kvSync, writer, chSeq, watches>>

\* ------------------------------------------------------------ environment
Tick ==
  /\ clock < MaxTime
  /\ clock' = clock + 1
  /\ UNCHANGED <<kvChannel, kvSnapshot, kvSync, writer, chSeq, watches, task>>

\* the records the provider returns to the handlers of the whole system
SysItems ==
  {Cancelled("A"),
   Confirmed("A", "X", ToISO(1), ToISO(2)),
   Confirmed("A", "Y", ToISO(1), ToISO(MaxTime + 1))}

\* ------------------------------------------------------------ the worker
Init ==
  /\ clock = 1
  /\ kvChannel = Null
  /\ kvSnapshot = Null
  /\ kvSync = UNDEF
  /\ writer = [snapshot |-> <<0, "none">>, sync |-> <<0, "none">>]
  /\ chSeq = 0
  /\ watches = {}
  /\ task = [t \in Tasks |-> IF t \in Hooks THEN Idle("hook") ELSE Idle("subscribe")]

IncPage(t) == \E resp \in Responses(SysItems, task[t].pages + 1, SysPages) : IncPageOf(t, resp)
IncFail(t) == \E e \in ListErrors : IncFailOf(t, e)
RebuildPage(t) ==
  \E resp \in Responses(SysItems, task[t].pages + 1, SysPages) : RebuildPageOf(t, resp)
RebuildFail(t) == \E e \in ListErrors : RebuildFailOf(t, e)

Next ==
  \/ Tick
  \/ \E t \in Hooks :
       \/ HookStart(t) \/ HookValidate(t) \/ HookAccessToken(t) \/ HookReadPrev(t)
       \/ IncStart(t) \/ IncPage(t) \/ IncFail(t)
       \/ HookPost(t) \/ HookPutSnapshot(t) \/ HookPutSync(t) \/ HookReport(t)
  \/ \E t \in Subscribers :
       \/ SubscribeStart(t) \/ WatchRead(t) \/ WatchCall(t) \/ WatchPut(t)
  \/ \E t \in Tasks :
       \/ RebuildPage(t) \/ RebuildFail(t) \/ RebuildPutSnapshot(t) \/ RebuildPutSync(t)

Spec == Init /\ [][Next]_vars

\* ------------------------------------------------------------ applyIncremental alone
\* Inputs: every prior snapshot over NormEvents taken at instant 0, every
\* persisted token, every time of the pass, and every feed over FeedItems.
\* Task 0 is a direct caller of applyIncremental.
PriorSnapshots ==
  {[events |-> m, updatedAt |-> ToISO(0)] :
     m \in UNION {[D -> UNION {NormEvents(id) : id \in Ids}] : D \in SUBSET Ids}}

WellKeyed(snap) == \A id \in DOMAIN snap.events : snap.events[id].id = id

InitInc ==
  /\ clock \in 1..MaxTime
  /\ kvChannel = Null
  /\ kvSnapshot \in {s \in PriorSnapshots : WellKeyed(s)}
  /\ kvSync \in {UNDEF, "", "s0"}
  /\ writer = [snapshot |-> <<0, "none">>, sync |-> <<0, "none">>]
  /\ chSeq = 0
  /\ watches = {}
  /\ task = [t \in {0} |-> [Idle("caller") EXCEPT !.pc = "inc_token", !.prev = kvSnapshot,
                                                  !.incTries = 1]]

IncPageAlone ==
  \E resp \in Responses(FeedItems, task[0].pages + 1, MaxPages) : IncPageOf(0, resp)
IncFailAlone == \E e \in ListErrors : IncFailOf(0, e)

NextInc == IncStart(0) \/ IncPageAlone \/ IncFailAlone

SpecInc == InitInc /\ [][NextInc]_vars

\* ------------------------------------------------------------ buildCurrentSnapshot alone
\* Task 0 is a direct caller of buildCurrentSnapshot, just before or at a JST
\* midnight.  The provider returns records that end at that midnight or later,
\* that start just before, at or after the end of either window, a record
\* without an end, and cancelled records with and without their times.
BeforeMidnight == MinutesPerDay - MinutesJst - 1
AtMidnight == MinutesPerDay - MinutesJst
WindowEndOn(nowT) == plusDays(jstTodayStart(nowT), WindowDays)
RebuildItems ==
  {Confirmed("A", "X", ToISO(1), ToISO(AtMidnight)),
   Confirmed("A", "Y", ToISO(WindowEndOn(BeforeMidnight) - 1) + 1, ToISO(WindowEndOn(AtMidnight))),
   Confirmed("A", "X", ToISO(WindowEndOn(BeforeMidnight)), ToISO(WindowEndOn(AtMidnight))),
   Confirmed("B", "Y", ToISO(WindowEndOn(AtMidnight) - 1), ToISO(WindowEndOn(AtMidnight))),
   Confirmed("B", "X", ToISO(WindowEndOn(AtMidnight)) + 1, ToISO(WindowEndOn(AtMidnight) + 1)),
   Confirmed("A", "X", ToISO(1), UNDEF_T),
   Cancelled("A"),
   [Confirmed("A", "Y", ToISO(AtMidnight), ToISO(AtMidnight + 1)) EXCEPT !.status = "cancelled"]}

\* lines 128-138: buildCurrentSnapshot is called
RebuildCall(t) ==
  /\ task[t].pc = "rb_call"
  /\ task' = [task EXCEPT ![t] = StartRebuild(@)]
  /\ UNCHANGED <<clock, kvChannel, kvSnapshot, kvSync, writer, chSeq, watches>>

InitRebuild ==
  /\ clock \in {BeforeMidnight, AtMidnight}
  /\ kvChannel = Null
  /\ kvSnapshot = Null
  /\ kvSync = UNDEF
  /\ writer = [snapshot |-> <<0, "none">>, sync |-> <<0, "none">>]
  /\ chSeq = 0
  /\ watches = {}
  /\ task = [t \in {0} |-> [Idle("caller") EXCEPT !.pc = "rb_call"]]

RebuildPageAlone ==
  \E resp \in Responses(RebuildItems, task[0].pages + 1, MaxPages) : RebuildPageOf(0, resp)
RebuildFailAlone == \E e \in ListErrors : RebuildFailOf(0, e)

NextRebuild == RebuildCall(0) \/ RebuildPageAlone \/ RebuildFailAlone

SpecRebuild == InitRebuild /\ [][NextRebuild]_vars

\* ------------------------------------------------------------ one raw record
\* normalizeItem, one iteration of the item loop of applyIncremental and one
\* iteration of the map loop of buildCurrentSnapshot, each on every raw record
\* of RawRecords: the id absent, empty or given, the title absent, empty or
\* given, each boundary with or without a timestamp and with or without a date
RawTimes(dateTime, date) == [dateTime : {UNDEF_T, dateTime}, date : {UNDEF_T, date}]
RawRecords ==
  [id : {UNDEF, "", "A"}, status : {"confirmed", "cancelled"}, summary : {UNDEF, "", "X"},
   start : RawTimes(ToISO(1) + 1, ToISO(0)),
   end : RawTimes(ToISO(MaxTime + 1), ToISO(MaxTime + 2))]
RawPriors ==
  {[events |-> EmptyMap, updatedAt |-> ToISO(0)],
   [events |-> [x \in {"A"} |-> [id |-> "A", summary |-> "Y",
                                  start |-> ToISO(1), end |-> ToISO(MaxTime + 1)]],
    updatedAt |-> ToISO(0)]}

\* line 109-115
NormalizeOne(t) ==
  /\ task[t].pc = "nz_start"
  /\ task' = [task EXCEPT ![t].result = normalizeItem(task[t].feed[1]),
                          ![t].pc = "nz_normalized"]
  /\ UNCHANGED <<clock, kvChannel, kvSnapshot, kvSync, writer, chSeq, watches>>

\* lines 173-176 and one iteration of the loop of lines 185-219
ApplyOne(t) ==
  /\ task[t].pc = "nz_start"
  /\ LET nowIso == ToISO(clock)
         w0 == [EmptyWork EXCEPT !.events = task[t].prev.events]
     IN task' = [task EXCEPT ![t].nowIso = nowIso,
                             ![t].w = ApplyItem(w0, task[t].feed[1], nowIso),
                             ![t].pc = "nz_applied"]
  /\ UNCHANGED <<clock, kvChannel, kvSnapshot, kvSync, writer, chSeq, watches>>

\* lines 128-130, 146 and one iteration of the loop of lines 148-155, the map
\* holding what earlier iterations put into it
BuildOne(t) ==
  /\ task[t].pc = "nz_start"
  /\ LET nowIso == ToISO(clock)
         windowEndMs == plusDays(jstTodayStart(clock), WindowDays)
     IN task' = [task EXCEPT
                   ![t].windowEndMs = windowEndMs,
                   ![t].snap = [events |-> BuildMap(task[t].prev.events, task[t].feed,
                                                    nowIso, windowEndMs),
                                updatedAt |-> nowIso],
                   ![t].pc = "nz_built"]
  /\ UNCHANGED <<clock, kvChannel, kvSnapshot, kvSync, writer, chSeq, watches>>

InitRaw ==
  /\ clock = 1
  /\ kvChannel = Null
  /\ kvSnapshot = Null
  /\ kvSync = UNDEF
  /\ writer = [snapshot |-> <<0, "none">>, sync |-> <<0, "none">>]
  /\ chSeq = 0
  /\ watches = {}
  /\ \E ev \in RawRecords, prev \in RawPriors :
       task = [t \in {0} |-> [Idle("caller") EXCEPT !.pc = "nz_start", !.feed = <<ev>>,
                                                    !.prev = prev]]

NextRaw == NormalizeOne(0) \/ ApplyOne(0) \/ BuildOne(0)

SpecRaw == InitRaw /\ [][NextRaw]_vars

\* ------------------------------------------------------------ the report alone
\* /hook lines 427-428 on every triple of classified lists of up to MaxEntries
\* items: buildChangeEntries, then renderDiscordMessage
ReportEvents ==
  {[id |-> "A", summary |-> "X", start |-> ToISO(1), end |-> ToISO(2)],
   [id |-> "B", summary |-> "Y", start |-> ToISO(1) + 1, end |-> ToISO(MaxTime + 1)]}
ReportUpdates == {[old |-> a, now |-> b] : a \in ReportEvents, b \in ReportEvents}

HookRender(t) ==
  /\ task[t].pc = "rn_start"
  /\ LET entries == buildChangeEntries(task[t].result.created, task[t].result.updated,
                                       task[t].result.deleted)
     IN task' = [task EXCEPT ![t].entries = entries,
                             ![t].message = renderDiscordMessage(entries),
                             ![t].pc = "rn_rendered"]
  /\ UNCHANGED <<clock, kvChannel, kvSnapshot, kvSync, writer, chSeq, watches>>

InitReport ==
  /\ clock = 1
  /\ kvChannel = Null
  /\ kvSnapshot = Null
  /\ kvSync = UNDEF
  /\ writer = [snapshot |-> <<0, "none">>, sync |-> <<0, "none">>]
  /\ chSeq = 0
  /\ watches = {}
  /\ \E c \in SeqsUpTo(ReportEvents, MaxEntries), u \in SeqsUpTo(ReportUpdates, MaxEntries),
        d \in SeqsUpTo(ReportEvents, MaxEntries) :
       task = [t \in {0} |->
                 [Idle("renderer") EXCEPT
                    !.pc = "rn_start",
                    !.result = [next |-> [events |-> EmptyMap, updatedAt |-> ToISO(1)],
                                created |-> c, updated |-> u, deleted |-> d,
                                nextSyncToken |-> UNDEF]]]

NextReport == HookRender(0)

SpecReport == InitReport /\ [][NextReport]_vars

\* ------------------------------------------------------------ postDiscord alone
\* A report body is the sequence of the lengths of its lines; in the string
\* the lines are joined by one "\n" each.  A slice of the body is the pair of
\* its offsets [from, to).
LIMIT == 4096
LineLengths == {1, 2047, 2048, 4095, 4096, 4097}
Bodies == UNION {[1..n -> LineLengths] : n \in 0..MaxLines}

RECURSIVE SumOf(_)
SumOf(lens) == IF lens = <<>> THEN 0 ELSE Head(lens) + SumOf(Tail(lens))
\* desc.length
LengthOf(body) == IF body = <<>> THEN 0 ELSE SumOf(body) + Len(body) - 1

\* lines 328-333: the slices desc.slice(i, i + LIMIT) for i = 0, LIMIT, ...
RECURSIVE SlicesFrom(_, _)
SlicesFrom(i, length) ==
  IF i < length
  THEN <<[from |-> i, to |-> IF i + LIMIT < length THEN i + LIMIT ELSE length]>>
         \o SlicesFrom(i + LIMIT, length)
  ELSE <<>>
splitEmbeds(desc) == SlicesFrom(0, LengthOf(desc))

\* lines 334-341: postDiscord returns at once for an empty body, else it
\* splits the body and sends the request
PostDiscordStart(t) ==
  /\ task[t].pc = "pd_start"
  /\ task' = [task EXCEPT ![t] =
       IF LengthOf(task[t].body) = 0 THEN [@ EXCEPT !.pc = "pd_skipped"]
       ELSE [@ EXCEPT !.embeds = splitEmbeds(task[t].body), !.pc = "pd_fetch"]]
  /\ UNCHANGED <<clock, kvChannel, kvSnapshot, kvSync, writer, chSeq, watches>>

\* lines 342-347: the webhook answers; a status that is not ok is thrown
PostDiscordAnswer(t) ==
  /\ task[t].pc = "pd_fetch"
  /\ \E ok \in BOOLEAN :
       task' = [task EXCEPT ![t] =
         [@ EXCEPT !.sent = Append(@, [kind |-> "notify", title |-> "updated", ok |-> ok]),
                   !.err = IF ok THEN UNDEF ELSE "discord webhook failed",
                   !.pc = IF ok THEN "pd_returned" ELSE "pd_threw"]]
  /\ UNCHANGED <<clock, kvChannel, kvSnapshot, kvSync, writer, chSeq, watches>>

InitChunk ==
  /\ clock = 1
  /\ kvChannel = Null
  /\ kvSnapshot = Null
  /\ kvSync = UNDEF
  /\ writer = [snapshot |-> <<0, "none">>, sync |-> <<0, "none">>]
  /\ chSeq = 0
  /\ watches = {}
  /\ \E b \in Bodies :
       task = [t \in {0} |-> [Idle("poster") EXCEPT !.pc = "pd_start", !.body = b]]

NextChunk == PostDiscordStart(0) \/ PostDiscordAnswer(0)

SpecChunk == InitChunk /\ [][NextChunk]_vars

\* ------------------------------------------------------------ applyIncremental twice
\* The caller applies a feed and then the same feed a second time to the same
\* prev object (a second call of applyIncremental): the provider delivers the
\* records of the first feed again, in pages of any cut.
IncAgain(t) ==
  /\ task[t].pc = "inc_returned" /\ task[t].first = Null
  /\ task' = [task EXCEPT ![t] =
       [Leave(@) EXCEPT !.first = task[t].result, !.feed1 = task[t].feed,
                        !.result = Null, !.nextSyncToken = UNDEF, !.pc = "inc_token"]]
  /\ UNCHANGED <<clock, kvChannel, kvSnapshot, kvSync, writer, chSeq, watches>>

IsPrefix(s, f) == Len(s) <= Len(f) /\ s = SubSeq(f, 1, Len(s))

\* the page resp is a page of the delivery the caller is in
Delivers(t, resp) ==
  \/ task[t].first = Null
  \/ LET f == task[t].feed \o resp.items IN
     /\ IsPrefix(f, task[t].feed1)
     /\ Falsy(resp.nextPageToken) => f = task[t].feed1

\* records of the feeds applied twice: cancellations, an event that has ended
\* at instant 2, later events, a record without an end
TwiceItems ==
  {Cancelled("A"), Cancelled("B"),
   Confirmed("A", "X", ToISO(1), ToISO(2)),
   Confirmed("A", "Y", ToISO(1) + 1, ToISO(MaxTime + 1)),
   Confirmed("B", "X", ToISO(1), ToISO(MaxTime + 1)),
   Confirmed("B", "X", ToISO(1), UNDEF_T)}

InitTwice ==
  /\ clock \in 1..MaxTime
  /\ kvChannel = Null
  /\ kvSnapshot \in {s \in PriorSnapshots : WellKeyed(s)}
  /\ kvSync = "s0"
  /\ writer = [snapshot |-> <<0, "none">>, sync |-> <<0, "none">>]
  /\ chSeq = 0
  /\ watches = {}
  /\ task = [t \in {0} |-> [Idle("caller") EXCEPT !.pc = "inc_token", !.prev = kvSnapshot,
                                                  !.incTries = 1]]

IncPageTwice ==
  \E resp \in Responses(TwiceItems, task[0].pages + 1, MaxPages) :
    Delivers(0, resp) /\ IncPageOf(0, resp)

NextTwice == IncStart(0) \/ IncPageTwice \/ IncFailAlone \/ IncAgain(0)

SpecTwice == InitTwice /\ [][NextTwice]_vars

\* ------------------------------------------------------------ one push
\* One /hook invocation (task 1) against every persisted state an earlier
\* /subscribe or /hook leaves behind: a channel or none; no snapshot, a snapshot
\* without a token (or with an empty token record, written from outside), or
\* a snapshot with a token.  Feeds have up to MaxPages pages.
PersistedEvents == {e \in NormEvents("A") : e.start = ToISO(1)}
PersistedSnapshots ==
  {[events |-> m, updatedAt |-> ToISO(0)] :
     m \in {EmptyMap} \cup {[id \in {"A"} |-> e] : e \in PersistedEvents}}

InitPush ==
  /\ clock \in 1..MaxTime
  /\ kvChannel \in {Null, [channelId |-> 1, resourceId |-> "r1", expiration |-> 0]}
  /\ \/ kvSnapshot = Null /\ kvSync = UNDEF
     \/ kvSnapshot \in PersistedSnapshots /\ kvSync \in {UNDEF, "", "s0"}
  /\ writer = [snapshot |-> <<0, "none">>, sync |-> <<0, "none">>]
  /\ chSeq = 1
  /\ watches = {kvChannel} \ {Null}
  /\ task = [t \in {1} |->
       [Idle("hook") EXCEPT !.before = [channel |-> kvChannel, snapshot |-> kvSnapshot,
                                        sync |-> kvSync]]]

IncPagePush ==
  \E resp \in Responses(SysItems, task[1].pages + 1, MaxPages) : IncPageOf(1, resp)
RebuildPagePush ==
  \E resp \in Responses(SysItems, task[1].pages + 1, MaxPages) : RebuildPageOf(1, resp)

NextPush ==
  \/ Tick
  \/ HookStart(1) \/ HookValidate(1) \/ HookAccessToken(1) \/ HookReadPrev(1)
  \/ IncStart(1) \/ IncPagePush \/ IncFail(1)
  \/ HookPost(1) \/ HookPutSnapshot(1) \/ HookPutSync(1) \/ HookReport(1)
  \/ RebuildPagePush \/ RebuildFail(1) \/ RebuildPutSnapshot(1) \/ RebuildPutSync(1)

SpecPush == InitPush /\ [][NextPush]_vars

\* ------------------------------------------------------------ one push, calls may hang
\* The fetch calls of getAccessToken (line 57), gcalList (66), postDiscord
\* (342) and the error report (451) are awaited without a timeout or an abort
\* signal: a call that is never answered leaves the task at its await.
NetworkWaits == {"hk_token", "inc_list", "rb_list", "inc_post", "report"}

NeverResponds(t) ==
  /\ task[t].pc \in NetworkWaits
  /\ task' = [task EXCEPT ![t].pc = "pending"]
  /\ UNCHANGED <<clock, kvChannel, kvSnapshot, kvSync, writer, chSeq, watches>>

\* the steps of the push of task 1
PushStep ==
  \/ HookStart(1) \/ HookValidate(1) \/ HookAccessToken(1) \/ HookReadPrev(1)
  \/ IncStart(1) \/ IncPagePush \/ IncFail(1)
  \/ HookPost(1) \/ HookPutSnapshot(1) \/ HookPutSync(1) \/ HookReport(1)
  \/ RebuildPagePush \/ RebuildFail(1) \/ RebuildPutSnapshot(1) \/ RebuildPutSync(1)

NextNet == Tick \/ PushStep \/ NeverResponds(1)

SpecNet == InitPush /\ [][NextNet]_vars

\* ------------------------------------------------------------ the channel
\* /subscribe (task 3) and two scheduled ticks, possibly overlapping
Schedulers == {4, 5}

InitWatch ==
  /\ clock = 1
  /\ kvChannel = Null
  /\ kvSnapshot = Null
  /\ kvSync = UNDEF
  /\ writer = [snapshot |-> <<0, "none">>, sync |-> <<0, "none">>]
  /\ chSeq = 0
  /\ watches = {}
  /\ task = [t \in Subscribers \cup Schedulers |->
               IF t \in Subscribers THEN Idle("subscribe") ELSE Idle("scheduled")]

NextWatch ==
  \/ Tick
  \/ \E t \in Subscribers :
       \/ SubscribeStart(t)
       \/ RebuildPage(t) \/ RebuildFail(t) \/ RebuildPutSnapshot(t) \/ RebuildPutSync(t)
  \/ \E t \in Schedulers : ScheduledStart(t)
  \/ \E t \in Subscribers \cup Schedulers : WatchRead(t) \/ WatchCall(t) \/ WatchPut(t)

SpecWatch == InitWatch /\ [][NextWatch]_vars

\* ------------------------------------------------------------ claims on applyIncremental
\* What the claims say, spelled out independently of the operators above.
EndsAfter(e, nowIso) == e.end \div NForms > nowIso \div NForms
IsCancel(it) == it.status = "cancelled"
\* a non-cancelled record with an id, a start and an end
IsEventRecord(it) ==
  /\ it.status # "cancelled" /\ it.id \notin {UNDEF, ""}
  /\ (it.start.dateTime # UNDEF_T \/ it.start.date # UNDEF_T)
  /\ (it.end.dateTime # UNDEF_T \/ it.end.date # UNDEF_T)
\* the NormalizedEvent of such a record
EventOf(it) ==
  [id |-> it.id,
   summary |-> IF it.summary = UNDEF THEN Placeholder ELSE it.summary,
   start |-> IF it.start.dateTime # UNDEF_T THEN it.start.dateTime ELSE it.start.date,
   end |-> IF it.end.dateTime # UNDEF_T THEN it.end.dateTime ELSE it.end.date]
Differs(a, b) == a.summary # b.summary \/ a.start # b.start \/ a.end # b.end

Returned == task[0].pc = "inc_returned"
Prior == task[0].prev.events
Feed == task[0].feed
Res == task[0].result
NowOfPass == task[0].nowIso
RecordsOf(id) == {i \in DOMAIN Feed : Feed[i].id = id}
OnlyRecordOf(id, i) == RecordsOf(id) = {i}
DeletedOf(id) == {k \in DOMAIN Res.deleted : Res.deleted[k].id = id}
UpdatedOf(id) == {k \in DOMAIN Res.updated : Res.updated[k].now.id = id \/ Res.updated[k].old.id = id}
CreatedOf(id) == {k \in DOMAIN Res.created : Res.created[k].id = id}
NoEntryOf(id) == DeletedOf(id) = {} /\ UpdatedOf(id) = {} /\ CreatedOf(id) = {}

\* the three cases of C1 for the cancelled record at position i of the feed
DeletionCases(i) ==
  LET id == Feed[i].id IN
  /\ (id \in DOMAIN Prior /\ EndsAfter(Prior[id], NowOfPass))
       => /\ Cardinality(DeletedOf(id)) = 1
          /\ \A k \in DeletedOf(id) : Res.deleted[k] = Prior[id]
          /\ id \notin DOMAIN Res.next.events
  /\ (id \in DOMAIN Prior /\ ~EndsAfter(Prior[id], NowOfPass))
       => /\ DeletedOf(id) = {}
          /\ id \notin DOMAIN Res.next.events
  /\ id \notin DOMAIN Prior
       => /\ NoEntryOf(id)
          /\ id \notin DOMAIN Res.next.events

\* C1 as stated: for every feed containing a cancelled record for an id of the
\* prior snapshot whose stored event is still future, the result has exactly
\* one deleted entry for the id, carrying the stored value, and the id is
\* absent from the next snapshot; a stale stored event is removed without an
\* entry; a cancelled record for an unknown id changes nothing.
C1_DeletionAnyFeed ==
  Returned => \A i \in DOMAIN Feed : IsCancel(Feed[i]) => DeletionCases(i)

\* C1 amended: the same, for a cancelled record that is the only record of the
\* feed with its id.
C1_DeletionSoleRecord ==
  Returned => \A i \in DOMAIN Feed :
    (IsCancel(Feed[i]) /\ OnlyRecordOf(Feed[i].id, i)) => DeletionCases(i)

C1_Witness ==
  /\ Returned
  /\ \E i \in DOMAIN Feed :
       /\ IsCancel(Feed[i]) /\ OnlyRecordOf(Feed[i].id, i)
       /\ Feed[i].id \in DOMAIN Prior
       /\ EndsAfter(Prior[Feed[i].id], NowOfPass)
       /\ Len(Res.deleted) = 1
       /\ Len(Feed) = 2

\* the two cases of C2 for the record at position i of the feed
UpdateCases(i) ==
  LET id == Feed[i].id
      n == EventOf(Feed[i]) IN
  (id \in DOMAIN Prior /\ EndsAfter(n, NowOfPass)) =>
     /\ Differs(Prior[id], n)
          => /\ Cardinality(UpdatedOf(id)) = 1
             /\ \A k \in UpdatedOf(id) : Res.updated[k] = [old |-> Prior[id], now |-> n]
             /\ id \in DOMAIN Res.next.events
             /\ Res.next.events[id] = n
     /\ ~Differs(Prior[id], n)
          => /\ NoEntryOf(id)
             /\ id \in DOMAIN Res.next.events
             /\ Res.next.events[id] = Prior[id]

\* C2 as stated: for an id of the prior snapshot, a non-cancelled,
\* normalizable, still-future record that differs from the stored event in
\* title, start or end yields exactly one updated entry with the old and the
\* new value and the next snapshot maps the id to the new value; an identical
\* record yields no entry and leaves the stored event unchanged.
C2_UpdateAnyFeed ==
  Returned => \A i \in DOMAIN Feed : IsEventRecord(Feed[i]) => UpdateCases(i)

\* C2 amended: the same, for a record that is the only record of the feed
\* with its id.
C2_UpdateSoleRecord ==
  Returned => \A i \in DOMAIN Feed :
    (IsEventRecord(Feed[i]) /\ OnlyRecordOf(Feed[i].id, i)) => UpdateCases(i)

C2_Witness ==
  /\ Returned
  /\ \E i \in DOMAIN Feed :
       /\ IsEventRecord(Feed[i]) /\ OnlyRecordOf(Feed[i].id, i)
       /\ Feed[i].id \in DOMAIN Prior
       /\ EndsAfter(EventOf(Feed[i]), NowOfPass)
       /\ Prior[Feed[i].id].summary = EventOf(Feed[i]).summary
       /\ Prior[Feed[i].id].end = EventOf(Feed[i]).end
       /\ Prior[Feed[i].id].start # EventOf(Feed[i]).start
       /\ Len(Res.updated) = 1

\* the case of C3 for the record at position i of the feed
RetirementCase(i) ==
  LET id == Feed[i].id IN
  (id \in DOMAIN Prior /\ ~EndsAfter(EventOf(Feed[i]), NowOfPass)) =>
     /\ id \notin DOMAIN Res.next.events
     /\ NoEntryOf(id)

\* C3 as stated: a non-cancelled record for an id of the prior snapshot that
\* normalizes to an event with end <= now removes the id from the next
\* snapshot and no created, updated or deleted entry is emitted for it.
C3_RetirementAnyFeed ==
  Returned => \A i \in DOMAIN Feed : IsEventRecord(Feed[i]) => RetirementCase(i)

\* C3 amended: the same, for a record that is the only record of the feed
\* with its id.
C3_RetirementSoleRecord ==
  Returned => \A i \in DOMAIN Feed :
    (IsEventRecord(Feed[i]) /\ OnlyRecordOf(Feed[i].id, i)) => RetirementCase(i)

C3_Witness ==
  /\ Returned
  /\ \E i \in DOMAIN Feed :
       /\ IsEventRecord(Feed[i]) /\ OnlyRecordOf(Feed[i].id, i)
       /\ Feed[i].id \in DOMAIN Prior
       /\ EventOf(Feed[i]).end \div NForms = NowOfPass \div NForms
       /\ EndsAfter(Prior[Feed[i].id], NowOfPass)
       /\ Feed[i].id \notin DOMAIN Res.next.events

\* the case of C4 for the record at position i of the feed
InsertionCase(i) ==
  LET id == Feed[i].id IN
  (id \notin DOMAIN Prior /\ EndsAfter(EventOf(Feed[i]), NowOfPass)) =>
     /\ id \in DOMAIN Res.next.events
     /\ Res.next.events[id] = EventOf(Feed[i])
     /\ NoEntryOf(id)

Done(t) == task[t].pc = "done"
IncWrites == {"inc.snapshot", "inc.sync"}
RebuildWrites == {"rebuild.snapshot", "rebuild.sync"}
ListFailures == {"syncGone", "events.list failed: 500"}

\* C5 as stated: every persisted snapshot holds only events that end after the
\* moment the snapshot was last touched (event.end > snapshot.updatedAt).
C5_SnapshotOnlyFuture ==
  kvSnapshot # Null =>
    \A id \in DOMAIN kvSnapshot.events :
      EndsAfter(kvSnapshot.events[id], kvSnapshot.updatedAt)

\* C6 as stated: an invocation that is over has written the snapshot record
\* and the token record of a pass both, or neither.
C6_PairedCommit ==
  \A t \in DOMAIN task : Done(t) =>
    /\ ("inc.snapshot" \in task[t].wrote) = ("inc.sync" \in task[t].wrote)
    /\ ("rebuild.snapshot" \in task[t].wrote) = ("rebuild.sync" \in task[t].wrote)

\* C6 amended: an invocation that is over has written the token record of a
\* pass only together with its snapshot record, and has written the token
\* record with the snapshot record exactly when the pass obtained a non-empty
\* token; it has committed at most one pass.
C6_PairedCommitWhenToken ==
  \A t \in DOMAIN task : Done(t) =>
    /\ task[t].wrote \in {{}, {"inc.snapshot"}, IncWrites, {"rebuild.snapshot"}, RebuildWrites}
    /\ task[t].wrote \in {IncWrites, RebuildWrites} <=>
         (task[t].wrote # {} /\ ~(task[t].nextSyncToken \in {UNDEF, ""}))
    /\ (task[t].wrote = IncWrites /\ writer.sync = <<t, "inc">>)
         => kvSync = task[t].nextSyncToken
    /\ (task[t].wrote = RebuildWrites /\ writer.sync = <<t, "rebuild">>)
         => kvSync = task[t].nextSyncToken

C6_Witness ==
  /\ Done(3) /\ task[3].wrote = RebuildWrites
  /\ Done(1) /\ task[1].wrote = IncWrites
  /\ Done(2) /\ task[2].wrote = RebuildWrites

\* C7 as stated, for two /hook tasks that each committed a snapshot and a
\* token: once both are over, the persisted snapshot and the persisted token,
\* when both were last written by /hook passes, come from the same pass.
C7_NoMixedPair ==
  (\A t \in Hooks : Done(t) /\ task[t].wrote \in {IncWrites, RebuildWrites}) =>
    ((writer.snapshot[1] \in Hooks /\ writer.sync[1] \in Hooks)
       => writer.snapshot = writer.sync)

\* C8: a pass whose list call fails writes nothing and returns no snapshot.
\* In the step in which a list call of the incremental pass fails, the
\* snapshot and token records stay as they are, nothing is returned, and prev
\* still is the snapshot that was read (no other invocation runs, so it is
\* the persisted one); in the step in which a list call of the rebuild fails
\* the records stay as they are and no snapshot is returned.  Afterwards the
\* invocation never writes a record of the failed pass.
C8_FailStep ==
  \A t \in DOMAIN task :
    /\ (~task[t].incFailed /\ task'[t].incFailed /\ task'[t].cause \in ListFailures)
         => /\ kvSnapshot' = kvSnapshot /\ kvSync' = kvSync
            /\ task'[t].result = Null
            /\ task'[t].prev = kvSnapshot
    /\ (~task[t].rebuildFailed /\ task'[t].rebuildFailed)
         => /\ kvSnapshot' = kvSnapshot /\ kvSync' = kvSync
            /\ task'[t].snap = Null
C8_NoWriteAfterFailure ==
  \A t \in DOMAIN task :
    /\ task[t].cause \in ListFailures => task[t].wrote \cap IncWrites = {}
    /\ task[t].rebuildFailed => task[t].wrote \cap RebuildWrites = {}
C8_FailedPassCommitsNothing == [][C8_FailStep]_vars /\ []C8_NoWriteAfterFailure

\* the second list call failed after the first page changed the working copy
C8_Witness ==
  /\ task[1].pc = "rb_list" /\ task[1].pages = 0
  /\ task[1].cause = "events.list failed: 500"
  /\ task[1].incCalls = 2
  /\ task[1].w.events # task[1].prev.events
  /\ task[1].prev = kvSnapshot

\* C9: an invocation whose incremental step failed makes one incremental
\* attempt and one rebuild; when the rebuild succeeded and the invocation is
\* over it has written the rebuilt snapshot and, having obtained a token, the
\* token.  The writes store the snapshot and the token of the rebuild.
C9_OneRebuild ==
  \A t \in DOMAIN task : task[t].incFailed =>
    /\ task[t].incTries <= 1
    /\ task[t].rebuilds = 1
    /\ (Done(t) /\ ~task[t].rebuildFailed) =>
         /\ "rebuild.snapshot" \in task[t].wrote
         /\ ~(task[t].nextSyncToken \in {UNDEF, ""}) => "rebuild.sync" \in task[t].wrote
C9_RebuildWrites ==
  \A t \in DOMAIN task :
    /\ (task[t].pc = "rb_putsnap" /\ task'[t].pc # "rb_putsnap")
         => kvSnapshot' = task[t].snap
    /\ (task[t].pc = "rb_putsync" /\ task'[t].pc # "rb_putsync")
         => kvSync' = task[t].nextSyncToken
C9_RecoveryByRebuild == []C9_OneRebuild /\ [][C9_RebuildWrites]_vars

C9_Witness ==
  /\ Done(1) /\ task[1].cause = "syncGone"
  /\ task[1].incTries = 1 /\ task[1].rebuilds = 1
  /\ task[1].wrote = RebuildWrites
  /\ kvSync = task[1].nextSyncToken
  /\ kvSnapshot # Null /\ kvSnapshot.updatedAt = ToISO(clock)

\* C10: an invocation that found no snapshot, or no token (absent or empty),
\* makes no list call with a continuation token and starts one rebuild; when
\* the rebuild succeeded and the invocation is over, the rebuilt snapshot is
\* persisted.
C10_MissingBaseline ==
  \A t \in DOMAIN task : task[t].baseline \in {"noPrev", "noToken"} =>
    /\ task[t].incCalls = 0
    /\ task[t].rebuilds = 1
    /\ (Done(t) /\ ~task[t].rebuildFailed) =>
         /\ "rebuild.snapshot" \in task[t].wrote
         /\ kvSnapshot # Null /\ writer.snapshot = <<t, "rebuild">>

C10_Witness ==
  /\ Done(1) /\ task[1].baseline = "noToken"
  /\ task[1].incCalls = 0 /\ task[1].rebuilds = 1
  /\ "rebuild.snapshot" \in task[1].wrote
  /\ kvSnapshot # Null /\ kvSnapshot.events # EmptyMap

\* the persisted records
Persisted == [channel |-> kvChannel, snapshot |-> kvSnapshot, sync |-> kvSync]
BothFailed(t) == task[t].incFailed /\ task[t].rebuildFailed

\* C11: once the incremental step and the rebuild of an invocation have both
\* failed, the persisted channel, snapshot and token are what they were when
\* the push arrived, the invocation makes no list call and no rebuild any
\* more, its next step sends one error report carrying the error of the
\* rebuild, and with that step the task is over whether the report was
\* delivered or not; nothing is thrown out of the task.
C11_AfterBothFailed ==
  \A t \in DOMAIN task :
    /\ task[t].pc # "unhandled"
    /\ BothFailed(t) =>
         /\ Persisted = task[t].before
         /\ task[t].wrote = {}
         /\ task[t].pc \in {"report", "done"}
         /\ Done(t) => /\ Len(task[t].sent) >= 1
                        /\ task[t].sent[Len(task[t].sent)].kind = "error"
                        /\ task[t].sent[Len(task[t].sent)].title = task[t].err
                        /\ \A i \in 1..(Len(task[t].sent) - 1) : task[t].sent[i].kind # "error"
C11_StepAfterBothFailed ==
  \A t \in DOMAIN task : BothFailed(t) =>
    /\ task'[t].incCalls = task[t].incCalls /\ task'[t].incTries = task[t].incTries
    /\ task'[t].rebuilds = task[t].rebuilds
    /\ (task'[t] # task[t]) => (task[t].pc = "report" /\ task'[t].pc = "done")
    /\ (task'[t] # task[t]) => (kvChannel' = kvChannel /\ kvSnapshot' = kvSnapshot /\ kvSync' = kvSync)
C11_TerminalRebuildFailure == []C11_AfterBothFailed /\ [][C11_StepAfterBothFailed]_vars

\* both steps failed, and so did the error report, with records persisted
C11_Witness ==
  /\ Done(1) /\ BothFailed(1)
  /\ task[1].cause = "syncGone" /\ task[1].err = "events.list failed: 500"
  /\ task[1].sent = <<[kind |-> "error", title |-> "events.list failed: 500", ok |-> FALSE]>>
  /\ kvSnapshot # Null /\ kvSync = "s0"

\* ------------------------------------------------------------ claims on the channel
Reusable == kvChannel # Null /\ kvChannel.expiration # 0 /\ kvChannel.expiration - clock > 5
IdsInUse == {w.channelId : w \in watches}
                \cup {task[u].channelId : u \in {u \in DOMAIN task : task[u].pc \in {"ew_watch", "ew_put"}}}

\* C12: the step of ensureWatch that reads the channel returns the persisted
\* channel, with no watch call and no write, exactly when that channel has an
\* expiration more than 5 minutes after now; otherwise it goes on to one watch
\* call with an id no channel has had, and the channel the provider answers is
\* persisted and returned.  An ensureWatch call makes at most one watch call
\* and at most one write.
C12_EnsureStep ==
  \A t \in DOMAIN task :
    /\ (task[t].pc = "ew_read" /\ task'[t] # task[t]) =>
         IF Reusable
         THEN /\ task'[t].ensured = kvChannel
              /\ task'[t].watchCalls = 0 /\ task'[t].chPuts = 0
              /\ task'[t].pc \notin {"ew_watch", "ew_put"}
              /\ kvChannel' = kvChannel /\ watches' = watches
         ELSE /\ task'[t].pc = "ew_watch"
              /\ task'[t].ensured = Null
              /\ task'[t].channelId \notin IdsInUse
              /\ kvChannel = Null \/ task'[t].channelId # kvChannel.channelId
    /\ (task[t].pc = "ew_watch" /\ task'[t] # task[t]) =>
         /\ task'[t].watchCalls = task[t].watchCalls + 1
         /\ \/ /\ task'[t].pc = "ew_put"
               /\ task'[t].channel.channelId = task[t].channelId
               /\ watches' = watches \cup {task'[t].channel}
            \/ /\ task'[t].pc = "done" /\ task'[t].err = "events.watch failed"
               /\ task'[t].ensured = Null
    /\ (task[t].pc = "ew_put" /\ task'[t] # task[t]) =>
         /\ kvChannel' = task[t].channel
         /\ task'[t].ensured = task[t].channel
         /\ task'[t].chPuts = task[t].chPuts + 1
    /\ (task[t].pc \notin {"ew_read", "ew_watch", "ew_put"}) =>
         /\ task'[t].watchCalls = task[t].watchCalls /\ task'[t].chPuts = task[t].chPuts
         /\ task'[t].ensured = task[t].ensured
C12_EnsureCounts ==
  \A t \in DOMAIN task :
    /\ task[t].watchCalls <= 1 /\ task[t].chPuts <= task[t].watchCalls
    /\ task[t].ensured # Null =>
         \/ task[t].watchCalls = 0 /\ task[t].chPuts = 0
         \/ task[t].watchCalls = 1 /\ task[t].chPuts = 1 /\ task[t].ensured \in watches
C13_AtMostOneActive ==
  Cardinality({w \in watches : w.expiration > clock}) <= 1

\* ------------------------------------------------------------ claims on the push
\* the push task t is about to validate does not trigger a synchronization
NonTriggering(t) ==
  \/ kvChannel = Null
  \/ kvChannel.channelId # task[t].channelId
  \/ kvChannel.resourceId # task[t].resourceId
  \/ task[t].state = "sync"

\* C14: the validation step never writes the channel record; when no channel
\* is persisted, or the channel id or resource id of the push differs from the
\* persisted channel, or the push carries state=sync, the step ends the task
\* with no token exchange, no list call, no request to Discord and no write
\* made, the persisted records unchanged; a task that is over does nothing
\* any more.
C14_ValidateStep ==
  \A t \in DOMAIN task :
    /\ (task[t].pc = "hk_channel" /\ task'[t] # task[t]) =>
         /\ kvChannel' = kvChannel
         /\ NonTriggering(t) =>
              /\ task'[t].pc = "done"
              /\ task'[t].tokenCalls = 0
              /\ task'[t].incCalls = 0 /\ task'[t].incTries = 0 /\ task'[t].rebuilds = 0
              /\ task'[t].sent = <<>>
              /\ task'[t].wrote = {} /\ task'[t].chPuts = 0
              /\ kvSnapshot' = kvSnapshot /\ kvSync' = kvSync
              /\ task'[t].err = UNDEF
         /\ ~NonTriggering(t) => task'[t].pc = "hk_token"
    /\ Done(t) => task'[t] = task[t]
    /\ (task[t].kind = "hook" /\ task'[t] # task[t]) => kvChannel' = kvChannel
C14_NonTriggeringPush == [][C14_ValidateStep]_vars

\* a push ignored while a channel, a snapshot and a token are persisted
C14_Witness ==
  /\ Done(1) /\ task[1].status = 200
  /\ task[1].tokenCalls = 0 /\ task[1].sent = <<>> /\ task[1].wrote = {}
  /\ kvChannel # Null /\ kvSnapshot # Null /\ kvSync = "s0"
  /\ Persisted = task[1].before

\* C15: the step in which a POST /hook request arrives gives the 200 response
\* and leaves the background task at its first await, before the validation,
\* the token exchange, any list call and any request to Discord; the response
\* of a /hook invocation is 200 whatever its background task does or fails at.
C15_ArrivalStep ==
  \A t \in DOMAIN task :
    (task[t].kind = "hook" /\ task[t].pc = "idle" /\ task'[t] # task[t]) =>
      /\ task'[t].status = 200
      /\ task'[t].pc = "hk_channel"
      /\ task'[t].tokenCalls = 0 /\ task'[t].incCalls = 0 /\ task'[t].rebuilds = 0
      /\ task'[t].sent = <<>> /\ task'[t].wrote = {}
C15_Answered ==
  \A t \in DOMAIN task :
    task[t].kind = "hook" => task[t].status = (IF task[t].pc = "idle" THEN 0 ELSE 200)
C15_ImmediateAck == [][C15_ArrivalStep]_vars /\ []C15_Answered

\* answered while the background task has not validated the push yet
C15_Witness ==
  /\ task[1].pc = "hk_channel" /\ task[1].status = 200
  /\ task[1].tokenCalls = 0 /\ task[1].sent = <<>>

\* C16 as stated: a background task that is not over can take a step: no
\* network call leaves it waiting without end.
C16_NoTaskWaitsForever == Done(1) \/ ENABLED PushStep

\* the incremental pass of task t has returned and nothing was or will be
\* posted for it: the task goes on to commit
PassedUnposted(t) ==
  /\ task[t].kind = "hook" /\ task[t].pc \in {"inc_putsnap", "inc_putsync"}
  /\ task[t].prev # Null
\* the only record of the feed for its id, at position i, reports a change of
\* a future event against the snapshot the pass started from
ReportsAddition(t, i) ==
  LET it == task[t].feed[i] IN
  /\ IsEventRecord(it) /\ EndsAfter(EventOf(it), task[t].result.next.updatedAt)
  /\ it.id \notin DOMAIN task[t].prev.events
ReportsUpdate(t, i) ==
  LET it == task[t].feed[i] IN
  /\ IsEventRecord(it) /\ EndsAfter(EventOf(it), task[t].result.next.updatedAt)
  /\ it.id \in DOMAIN task[t].prev.events
  /\ Differs(task[t].prev.events[it.id], EventOf(it))
ReportsDeletion(t, i) ==
  LET it == task[t].feed[i] IN
  /\ IsCancel(it) /\ it.id \in DOMAIN task[t].prev.events
  /\ EndsAfter(task[t].prev.events[it.id], task[t].result.next.updatedAt)
SoleRecord(t, i) == \A j \in DOMAIN task[t].feed : task[t].feed[j].id = task[t].feed[i].id => j = i

\* C17 as stated: when the feed of a validated push reports the addition, the
\* update or the deletion of a future event (by the only record for its id),
\* the invocation does not go on to commit without having sent a
\* notification to Discord.
C17_EveryChangeNotified ==
  \A t \in DOMAIN task : PassedUnposted(t) =>
    \A i \in DOMAIN task[t].feed :
      (SoleRecord(t, i) /\ (ReportsAddition(t, i) \/ ReportsUpdate(t, i) \/ ReportsDeletion(t, i)))
        => \E k \in DOMAIN task[t].sent : task[t].sent[k].kind = "notify"

\* the same for updates and deletions only
C17_UpdatesAndDeletionsNotified ==
  \A t \in DOMAIN task : PassedUnposted(t) =>
    \A i \in DOMAIN task[t].feed :
      (SoleRecord(t, i) /\ (ReportsUpdate(t, i) \/ ReportsDeletion(t, i)))
        => \E k \in DOMAIN task[t].sent : task[t].sent[k].kind = "notify"

EmptyLists(res) == res.created = <<>> /\ res.updated = <<>> /\ res.deleted = <<>>
\* the incremental pass of task t returned empty lists
EmptyPass(t) == task[t].kind = "hook" /\ task[t].result # Null /\ EmptyLists(task[t].result)

C19_NoRequest ==
  \A t \in DOMAIN task : EmptyPass(t) =>
    /\ task[t].pc \in {"inc_putsnap", "inc_putsync"}
    /\ task[t].sent = <<>>
C19_CommitBoth ==
  \A t \in DOMAIN task : (EmptyPass(t) /\ task'[t] # task[t]) =>
    /\ task'[t].sent = <<>>
    /\ task[t].pc = "inc_putsnap" =>
         /\ kvSnapshot' = task[t].result.next
         /\ task'[t].pc = "inc_putsync"
    /\ task[t].pc = "inc_putsync" =>
         /\ kvSync' = task[t].result.nextSyncToken
         /\ task'[t].pc = "done" /\ task'[t].wrote = IncWrites
C19_CommitSnapshotAndObtainedToken ==
  \A t \in DOMAIN task : (EmptyPass(t) /\ task'[t] # task[t]) =>
    /\ task'[t].sent = <<>>
    /\ task[t].pc = "inc_putsnap" =>
         /\ kvSnapshot' = task[t].result.next
         /\ IF task[t].result.nextSyncToken \in {UNDEF, ""}
            THEN task'[t].pc = "done" /\ task'[t].wrote = {"inc.snapshot"} /\ kvSync' = kvSync
            ELSE task'[t].pc = "inc_putsync"
    /\ task[t].pc = "inc_putsync" =>
         /\ kvSync' = task[t].result.nextSyncToken
         /\ task'[t].pc = "done" /\ task'[t].wrote = IncWrites

\* C19 as stated: an incremental pass that returned empty lists makes no
\* request to Discord, and the invocation writes the snapshot and then the
\* token of the pass.
C19_EmptyReportSuppressed == []C19_NoRequest /\ [][C19_CommitBoth]_vars

\* C19 amended: an incremental pass that returned empty lists makes no request
\* to Discord, and the invocation writes the snapshot and then, when the pass
\* obtained a non-empty token, the token.
C19_EmptyReportSuppressedTokenIfAny ==
  []C19_NoRequest /\ [][C19_CommitSnapshotAndObtainedToken]_vars

\* an update of a stored event to the stored values: nothing to report, the
\* snapshot and the token are committed
C19_Witness ==
  /\ Done(1) /\ task[1].sent = <<>> /\ task[1].wrote = IncWrites
  /\ task[1].incCalls = 2 /\ ~task[1].incFailed
  /\ kvSnapshot.updatedAt = ToISO(clock) /\ kvSnapshot.events # EmptyMap
  /\ kvSync = "s2"

\* the offsets at which a line of the body starts
LineStartsOf(body) == {LengthOf(SubSeq(body, 1, k)) + 1 : k \in 1..(Len(body) - 1)} \cup {0}
\* the body of task 0 has been split
Split == task[0].pc \in {"pd_fetch", "pd_returned", "pd_threw"}
ChunksOf == task[0].embeds

\* every unit holds at most 4096 characters, and the units, one after the
\* other, are the body
C20_UnitsCoverBody ==
  Split =>
    /\ \A k \in DOMAIN ChunksOf : ChunksOf[k].to - ChunksOf[k].from <= 4096
                                   /\ ChunksOf[k].to > ChunksOf[k].from
    /\ ChunksOf[1].from = 0 /\ ChunksOf[Len(ChunksOf)].to = LengthOf(task[0].body)
    /\ \A k \in 1..(Len(ChunksOf) - 1) : ChunksOf[k + 1].from = ChunksOf[k].to

\* C20 as stated, for a body whose lines each fit into a unit: the outbound
\* units hold at most 4096 characters each, their concatenation is the body,
\* and every unit after the first starts where a line starts (or at the line
\* break before it): no line is cut in the middle.
C20_SplitOnLineBoundaries ==
  /\ C20_UnitsCoverBody
  /\ (Split /\ \A i \in DOMAIN task[0].body : task[0].body[i] <= 4096) =>
        \A k \in 2..Len(ChunksOf) :
          \/ ChunksOf[k].from \in LineStartsOf(task[0].body)
          \/ ChunksOf[k].from + 1 \in LineStartsOf(task[0].body)

\* ------------------------------------------------------------ claims on the report order
Rendered == task[0].pc = "rn_rendered"
Lists == task[0].result
Rows == task[0].entries
\* the lines of the body that open a row
RowLines == SelectSeq(task[0].message.body, LAMBDA l : l[1] = "-")

\* C21: the report has one row per item of the three lists: the created items
\* in their order, then the updated items in their order, then the deleted
\* items in their order; the body opens one row per item in the same order.
C21_ReportOrder ==
  Rendered =>
    LET nc == Len(Lists.created)
        nu == Len(Lists.updated)
        nd == Len(Lists.deleted) IN
    /\ Len(Rows) = nc + nu + nd
    /\ \A i \in 1..nc : Rows[i].kind = "created" /\ Rows[i].current = Lists.created[i]
    /\ \A i \in 1..nu : /\ Rows[nc + i].kind = "updated"
                          /\ Rows[nc + i].current = Lists.updated[i].now
                          /\ Rows[nc + i].previous = Lists.updated[i].old
    /\ \A i \in 1..nd : Rows[nc + nu + i].kind = "deleted"
                          /\ Rows[nc + nu + i].current = Lists.deleted[i]
    /\ Len(RowLines) = nc + nu + nd
    /\ \A i \in 1..nc : RowLines[i] = <<"-", Lists.created[i].summary, "created">>
    /\ \A i \in 1..nu : RowLines[nc + i] = <<"-", Lists.updated[i].now.summary, "updated">>
    /\ \A i \in 1..nd : RowLines[nc + nu + i] = <<"-", Lists.deleted[i].summary, "deleted">>

\* two items in each list, in both orders of the events
C21_Witness ==
  /\ Rendered /\ Len(Rows) = 6
  /\ Lists.created[1].id = "B" /\ Lists.created[2].id = "A"
  /\ Lists.deleted[1].id = "A" /\ Lists.deleted[2].id = "B"
  /\ Rows[1].current.id = "B" /\ Rows[3].kind = "updated" /\ Rows[6].current.id = "B"

\* ------------------------------------------------------------ claims on normalization
Raw == task[0].feed[1]
GivenBy(b) == b.dateTime # UNDEF_T \/ b.date # UNDEF_T
Preferred(b) == IF b.dateTime # UNDEF_T THEN b.dateTime ELSE b.date
Complete == Raw.id \notin {UNDEF, ""} /\ GivenBy(Raw.start) /\ GivenBy(Raw.end)
\* normalizeItem on the record
NormalizesAsStated ==
  task[0].pc = "nz_normalized" =>
    IF Complete
    THEN task[0].result = [id |-> Raw.id,
                           summary |-> IF Raw.summary = UNDEF THEN Placeholder ELSE Raw.summary,
                           start |-> Preferred(Raw.start), end |-> Preferred(Raw.end)]
    ELSE task[0].result = Null
\* the iteration of applyIncremental left the working copy and the lists alone
SkippedByIncremental ==
  task[0].w = [EmptyWork EXCEPT !.events = task[0].prev.events]
\* the iteration of buildCurrentSnapshot left the map alone
SkippedByRebuild == task[0].snap.events = task[0].prev.events

\* C22 as stated: a record with a non-empty id and both boundaries given by a
\* timestamp or a date normalizes to that id, the timestamp preferred over the
\* date, the placeholder for an absent title; every other record is not
\* normalizable, and both synchronizers skip it.
C22_Normalization ==
  /\ NormalizesAsStated
  /\ (task[0].pc = "nz_applied" /\ ~Complete) => SkippedByIncremental
  /\ (task[0].pc = "nz_built" /\ ~Complete) => SkippedByRebuild

\* C22 (amended): as above, but applyIncremental skips a record that is not
\* normalizable only when its status is not cancelled: a cancelled record is
\* never normalized, its id is removed from the working copy.
C22_NormalizationExceptCancelled ==
  /\ NormalizesAsStated
  /\ (task[0].pc = "nz_applied" /\ ~Complete /\ Raw.status # "cancelled")
       => SkippedByIncremental
  /\ (task[0].pc = "nz_applied" /\ Raw.status = "cancelled" /\ Raw.id = "A")
       => "A" \notin DOMAIN task[0].w.events
  /\ (task[0].pc = "nz_built" /\ ~Complete) => SkippedByRebuild

\* a record of a stored id without an end went through applyIncremental
C22_Witness ==
  /\ task[0].pc = "nz_applied" /\ Raw.status = "confirmed"
  /\ Raw.id = "A" /\ "A" \in DOMAIN task[0].prev.events
  /\ GivenBy(Raw.start) /\ ~GivenBy(Raw.end)
  /\ SkippedByIncremental

\* ------------------------------------------------------------ claims on the returned token
\* the pages of the call that carried a token
Issuing == {k \in DOMAIN task[0].tokens : task[0].tokens[k] \notin {UNDEF, ""}}
LastIssued == task[0].tokens[CHOOSE k \in Issuing : \A j \in Issuing : j <= k]

\* C23 as stated: the token applyIncremental returns is the last token a page
\* of the feed carried; when no page carried one it is the token passed in.
C23_LastTokenOrPassedIn ==
  Returned => Res.nextSyncToken = IF Issuing # {} THEN LastIssued ELSE task[0].syncToken

\* C23 (amended): the token applyIncremental returns is the last token a page
\* of the feed carried, a later page without one never erasing it; when no
\* page carried one, no token is returned.
C23_LastTokenOrNone ==
  Returned => Res.nextSyncToken = IF Issuing # {} THEN LastIssued ELSE UNDEF

\* the first page carried a token, the second and last page did not
C23_Witness ==
  /\ Returned /\ Len(task[0].tokens) = 2
  /\ task[0].tokens[1] = TokenOfPage(1) /\ task[0].tokens[2] = UNDEF
  /\ Res.nextSyncToken = TokenOfPage(1)

\* ------------------------------------------------------------ claims on the full rebuild
Rebuilt == task[0].pc = "rb_returned"
Records == task[0].events
\* JST midnight of the day of the instant nowT, and the end of the window
JstMidnight(nowT) ==
  CHOOSE m \in (nowT - MinutesPerDay + 1)..nowT : (m + MinutesJst) % MinutesPerDay = 0
WindowEndAt(nowT) == JstMidnight(nowT) + WindowDays * MinutesPerDay
\* the record at position i is normalizable, ends after now and starts before
\* the end of the window
Qualifies(i) ==
  /\ Records[i].id \notin {UNDEF, ""}
  /\ GivenBy(Records[i].start) /\ GivenBy(Records[i].end)
  /\ Preferred(Records[i].end) \div NForms > clock
  /\ Preferred(Records[i].start) \div NForms < WindowEndAt(clock)
Qualifying(id) == {i \in DOMAIN Records : Records[i].id = id /\ Qualifies(i)}
LastOf(S) == CHOOSE i \in S : \A j \in S : j <= i
NormalizedRecord(i) ==
  [id |-> Records[i].id,
   summary |-> IF Records[i].summary = UNDEF THEN Placeholder ELSE Records[i].summary,
   start |-> Preferred(Records[i].start), end |-> Preferred(Records[i].end)]

C28_NoCancelledInRebuild ==
  Rebuilt =>
    \A id \in DOMAIN task[0].snap.events :
      Records[LastOf({i \in DOMAIN Records : Records[i].id = id})].status # "cancelled"

\* ------------------------------------------------------------ claims on the periodic tick
\* a step of the scheduled invocation t
C25_TickStep ==
  \A t \in Schedulers :
    task'[t] # task[t] =>
      /\ kvSnapshot' = kvSnapshot /\ kvSync' = kvSync /\ writer' = writer
      /\ kvChannel' # kvChannel => (task[t].pc = "ew_put" /\ kvChannel' = task[t].channel)
      /\ (task[t].pc = "ew_watch" /\ task'[t].err = "events.watch failed") =>
           (kvChannel' = kvChannel /\ task'[t].pc = "done")
\* what the scheduled invocation t has read, called, sent and written
C25_TickHistory ==
  \A t \in Schedulers :
    /\ task[t].prev = Null /\ task[t].syncToken = UNDEF /\ task[t].baseline = "unread"
    /\ task[t].incTries = 0 /\ task[t].incCalls = 0 /\ task[t].rebuilds = 0
    /\ task[t].pages = 0 /\ task[t].snap = Null /\ task[t].result = Null
    /\ task[t].sent = <<>> /\ task[t].wrote = {}
    /\ task[t].pc \in {"idle", "ew_read", "ew_watch", "ew_put", "done"}
    /\ task[t].err = "events.watch failed" => task[t].chPuts = 0

\* C25: a scheduled invocation never reads or writes the snapshot or the token
\* record, makes no list call and sends no notification; the only record it
\* may replace is the channel record, by the channel the watch call answered,
\* and when the watch call fails the channel record stays as it is.
C25_TickRenewsChannelOnly == [][C25_TickStep]_vars /\ []C25_TickHistory

\* with a snapshot persisted, one tick failed at the watch call and another
\* replaced the channel record
C25_Witness ==
  /\ kvSnapshot # Null
  /\ task[4].pc = "done" /\ task[4].err = "events.watch failed"
  /\ task[5].pc = "done" /\ task[5].chPuts = 1 /\ kvChannel = task[5].ensured

\* ------------------------------------------------------------ claims on the two reads
\* the step in which applyIncremental, called by the push t, reads the token
\* record and goes on to the list call
ReadsToken(t) == task[t].pc = "inc_token" /\ task'[t].pc = "inc_list"

\* C26 as stated: when the push handler's incremental pass reads the token and
\* the persisted token and snapshot were written by one and the same commit,
\* the snapshot the pass read before, and diffs against, is the snapshot of
\* that commit.
C26_ReadStep ==
  \A t \in Hooks :
    (ReadsToken(t) /\ writer.snapshot = writer.sync) => task[t].prev = kvSnapshot
C26_TokenReadWithItsSnapshot == [][C26_ReadStep]_vars

\* ------------------------------------------------------------ claims on a failed delivery
\* the webhook refused the notification of the push
DeliveryFailed ==
  \E k \in DOMAIN task[1].sent : task[1].sent[k].kind = "notify" /\ ~task[1].sent[k].ok

\* C27 as stated: once the delivery of the entries of an incremental pass has
\* failed, the persisted snapshot and token stay the ones the pass started
\* from, so that the next push computes the same entries again.
C27_FailedDeliveryKeepsState ==
  DeliveryFailed =>
    (kvSnapshot = task[1].before.snapshot /\ kvSync = task[1].before.sync)

====
